---- MODULE Spec2Model ----
(***************************************************************************)
(* BIBparsley: a BibTeX reader / normaliser / writer (src/BIBparsley.py)   *)
(* and the script that drives it (src/BIB_filter.py).                      *)
(*                                                                         *)
(* A text is a sequence of one-character strings.  Position p of a text    *)
(* is Python index p-1, so "index < length" reads "index <= Len(text)".    *)
(* None is <<"None">>, which is no text.  An OrderedDict is a              *)
(* sequence of <<key, value>> pairs with pairwise different keys.          *)
(***************************************************************************)
EXTENDS Integers, Sequences, FiniteSets, TLC

VARIABLES
    content,      \* read_bibtex_entries: the text of the input file
    index,        \* read_bibtex_entries: the scan position
    in_entry,     \* read_bibtex_entries: TRUE inside the inner while loop
    entry_start,  \* read_bibtex_entries: position of the "@" of the open record
    brace_count,  \* read_bibtex_entries: brace depth of the open record
    entries,      \* the OrderedDict of entries: <<id, [type, fields]>> pairs
    handed,       \* the calls of process_bib_entry so far: <<entry_start, index>>
    pc,           \* where the run is: scan, parsed, remove, update, write, ...
    pos,          \* BIB_filter: the entry the for loop is at
    out_file,     \* the output file: [state, data]
    stdout,       \* the diagnostic printed by a fatal exit
    lookup,       \* what the last Crossref query did
    pass,         \* round-trip harness: 1 on the source, 2 on the serialised text
    prev,         \* round-trip harness: the entries that were serialised
    arg,          \* function harness: the input
    res,          \* function harness: the result
    fpc           \* function harness: idle, ready, done, twice

vars == <<content, index, in_entry, entry_start, brace_count, entries, handed,
          pc, pos, out_file, stdout, lookup, pass, prev, arg, res, fpc>>

scanVars == <<content, index, in_entry, entry_start, brace_count, entries, handed>>
runVars == <<pc, pos, out_file, stdout, lookup>>
roundVars == <<pass, prev>>
fnVars == <<arg, res, fpc>>

None == <<"None">>

(***************************************************************************)
(* Python's str methods, on texts.                                         *)
(***************************************************************************)
WS == {" ", "\t", "\n", "\r"}

LowerLetters == <<"a","b","c","d","e","f","g","h","i","j","k","l","m",
                  "n","o","p","q","r","s","t","u","v","w","x","y","z">>
UpperLetters == <<"A","B","C","D","E","F","G","H","I","J","K","L","M",
                  "N","O","P","Q","R","S","T","U","V","W","X","Y","Z">>

IsLowerCh(c) == \E i \in DOMAIN LowerLetters : LowerLetters[i] = c
IsUpperCh(c) == \E i \in DOMAIN UpperLetters : UpperLetters[i] = c

\* str.upper on one character
upper_ch(c) ==
    IF IsLowerCh(c)
    THEN UpperLetters[CHOOSE i \in DOMAIN LowerLetters : LowerLetters[i] = c]
    ELSE c

\* str.lower on one character
lower_ch(c) ==
    IF IsUpperCh(c)
    THEN LowerLetters[CHOOSE i \in DOMAIN UpperLetters : UpperLetters[i] = c]
    ELSE c

\* str.lower
lower(s) == [i \in DOMAIN s |-> lower_ch(s[i])]

\* str.isalpha: not empty, every character a letter
isalpha(s) == s # <<>> /\ \A i \in DOMAIN s : IsLowerCh(s[i]) \/ IsUpperCh(s[i])

\* str.isupper: a cased character, and no lowercase one
isupper(s) ==
    /\ \E i \in DOMAIN s : IsUpperCh(s[i])
    /\ \A i \in DOMAIN s : ~IsLowerCh(s[i])

RECURSIVE lstrip(_)
lstrip(s) == IF s # <<>> /\ Head(s) \in WS THEN lstrip(Tail(s)) ELSE s

RECURSIVE rstrip(_)
rstrip(s) ==
    IF s # <<>> /\ s[Len(s)] \in WS THEN rstrip(SubSeq(s, 1, Len(s) - 1)) ELSE s

\* str.strip()
strip(s) == rstrip(lstrip(s))

\* str.rstrip(","): every trailing comma goes
RECURSIVE rstrip_comma(_)
rstrip_comma(s) ==
    IF s # <<>> /\ s[Len(s)] = "," THEN rstrip_comma(SubSeq(s, 1, Len(s) - 1)) ELSE s

\* "c in s"
contains(s, c) == \E i \in DOMAIN s : s[i] = c

\* str.find(c) as a position: the first one, 0 when there is none
find(s, c) == IF contains(s, c) THEN CHOOSE i \in DOMAIN s :
                                       s[i] = c /\ \A j \in 1..(i - 1) : s[j] # c
              ELSE 0

\* str.rfind(c, 0, end) as a position: the last one before position end, 0 when none
rfind(s, c, end) ==
    IF \E i \in 1..(end - 1) : s[i] = c
    THEN CHOOSE i \in 1..(end - 1) : s[i] = c /\ \A j \in (i + 1)..(end - 1) : s[j] # c
    ELSE 0

\* s[p:] from position p
from(s, p) == SubSeq(s, p, Len(s))

\* sep.join(parts)
RECURSIVE join(_, _)
join(parts, sep) ==
    IF parts = <<>> THEN <<>>
    ELSE IF Len(parts) = 1 THEN parts[1]
    ELSE parts[1] \o sep \o join(Tail(parts), sep)

\* str.startswith(pre) at position p
starts_at(s, p, pre) ==
    /\ p + Len(pre) - 1 <= Len(s)
    /\ \A i \in DOMAIN pre : s[p + i - 1] = pre[i]

\* str.replace(old, new): left to right, without overlap (old is not empty)
RECURSIVE replace_from(_, _, _, _)
replace_from(s, p, old, new) ==
    IF p > Len(s) THEN <<>>
    ELSE IF starts_at(s, p, old) THEN new \o replace_from(s, p + Len(old), old, new)
    ELSE <<s[p]>> \o replace_from(s, p + 1, old, new)

replace(s, old, new) == replace_from(s, 1, old, new)

\* str.count(c) of one character
count(s, c) == Cardinality({i \in DOMAIN s : s[i] = c})

\* c * n
times(c, n) == [i \in 1..n |-> c]

\* str.split(): the runs of characters that are not whitespace
RECURSIVE split_ws_from(_, _, _)
split_ws_from(s, p, word) ==
    IF p > Len(s) THEN (IF word = <<>> THEN <<>> ELSE <<word>>)
    ELSE IF s[p] \in WS
         THEN (IF word = <<>> THEN <<>> ELSE <<word>>) \o split_ws_from(s, p + 1, <<>>)
         ELSE split_ws_from(s, p + 1, Append(word, s[p]))

split_ws(s) == split_ws_from(s, 1, <<>>)

(***************************************************************************)
(* OrderedDict                                                             *)
(***************************************************************************)
od_keys(d) == [i \in DOMAIN d |-> d[i][1]]
od_has(d, k) == \E i \in DOMAIN d : d[i][1] = k
od_at(d, k) == CHOOSE i \in DOMAIN d : d[i][1] = k
od_get(d, k) == d[od_at(d, k)][2]

\* Mutant of od_set: a known key is taken out and put at the end.
od_set_move_to_end(d, k, v) == Append(SelectSeq(d, LAMBDA kv : kv[1] # k), <<k, v>>)

\* d[k] = v: a new key goes to the end, a known key keeps its place
od_set(d, k, v) ==
    IF od_has(d, k) THEN [d EXCEPT ![od_at(d, k)] = <<k, v>>] ELSE Append(d, <<k, v>>)

\* del d[k]
od_del(d, k) == SelectSeq(d, LAMBDA kv : kv[1] # k)

\* d.update(pairs)
RECURSIVE od_update(_, _)
od_update(d, pairs) ==
    IF pairs = <<>> THEN d
    ELSE od_update(od_set(d, pairs[1][1], pairs[1][2]), Tail(pairs))

(***************************************************************************)
(* extract_value                                                           *)
(***************************************************************************)
RECURSIVE extract_value_loop(_, _, _, _, _)
extract_value_loop(text, idx, brace_level, in_quotes, value) ==
    IF idx > Len(text) THEN <<value, idx>>
    ELSE LET char == text[idx] IN
         IF char = "{"
         THEN extract_value_loop(text, idx + 1, brace_level + 1, in_quotes,
                                 Append(value, char))
         ELSE IF char = "}"
         THEN LET v == Append(value, char) IN
              IF brace_level - 1 = 0
              THEN <<IF v[1] = "{" /\ v[Len(v)] = "}"
                     THEN SubSeq(v, 2, Len(v) - 1) ELSE v,
                     idx>>
              ELSE extract_value_loop(text, idx + 1, brace_level - 1, in_quotes, v)
         ELSE IF char = "\""
         THEN extract_value_loop(text, idx + 1, brace_level, ~in_quotes,
                                 Append(value, char))
         ELSE IF char = "," /\ brace_level = 0 /\ ~in_quotes
         THEN <<value, idx>>
         ELSE extract_value_loop(text, idx + 1, brace_level, in_quotes,
                                 Append(value, char))

extract_value(text, start_index) ==
    extract_value_loop(text, start_index, 0, FALSE, <<>>)

(***************************************************************************)
(* The literals of the source                                              *)
(***************************************************************************)
T_and == <<" ","a","n","d"," ">>
T_word_and == <<"a","n","d">>
K_author == <<"a","u","t","h","o","r">>
K_editor == <<"e","d","i","t","o","r">>
K_pages == <<"p","a","g","e","s">>
K_timestamp == <<"t","i","m","e","s","t","a","m","p">>
K_abstract == <<"a","b","s","t","r","a","c","t">>
K_keywords == <<"k","e","y","w","o","r","d","s">>
K_owner == <<"o","w","n","e","r">>
K_issn == <<"i","s","s","n">>
K_url == <<"u","r","l">>
K_title == <<"t","i","t","l","e">>
K_doi == <<"d","o","i">>
T_article == <<"a","r","t","i","c","l","e">>
DOI_not_found == <<"D","O","I"," ","n","o","t"," ","f","o","u","n","d">>

(***************************************************************************)
(* abbreviate_name, split_authors                                          *)
(***************************************************************************)
is_all_uppercase(s) == isalpha(s) /\ isupper(s)

\* " ".join(filter(None, parts))
join_filter_none(parts) == join(SelectSeq(parts, LAMBDA x : x # <<>>), <<" ">>)

RECURSIVE abbreviate_name_loop(_, _)
abbreviate_name_loop(name_parts, joinname) ==
    IF name_parts = <<>> THEN joinname
    ELSE LET part == Head(name_parts) IN
         IF is_all_uppercase(part)
         THEN LET letters == [i \in DOMAIN part |-> <<part[i], ".">>] IN
              abbreviate_name_loop(Tail(name_parts),
                                   join_filter_none(<<joinname>> \o letters))
         ELSE LET part2 == IF isalpha(part) THEN <<upper_ch(part[1]), ".">> ELSE part IN
              abbreviate_name_loop(Tail(name_parts),
                                   join_filter_none(<<joinname, part2>>))

abbreviate_name(name) ==
    abbreviate_name_loop(split_ws(replace(name, <<".">>, <<".", " ">>)), <<>>)

\* the first position at or after p that holds no whitespace (Len(s) + 1 at the end)
RECURSIVE ws_run_end(_, _)
ws_run_end(s, p) == IF p <= Len(s) /\ s[p] \in WS THEN ws_run_end(s, p + 1) ELSE p

\* a match of \s+and\s+ that starts at position p: the position after it, else 0.
\* Both \s+ are greedy, and giving whitespace back never lets "and" match.
re_match_and(s, p) ==
    IF s[p] \notin WS THEN 0
    ELSE LET j == ws_run_end(s, p) IN
         IF starts_at(s, j, T_word_and) /\ j + 3 <= Len(s) /\ s[j + 3] \in WS
         THEN ws_run_end(s, j + 3)
         ELSE 0

\* re.split(r"\s+and\s+", s): p is where the search is, q where the open piece began
RECURSIVE re_split_and_from(_, _, _)
re_split_and_from(s, p, q) ==
    IF p > Len(s) THEN <<SubSeq(s, q, Len(s))>>
    ELSE LET e == re_match_and(s, p) IN
         IF e # 0
         THEN <<SubSeq(s, q, p - 1)>> \o re_split_and_from(s, e, e)
         ELSE re_split_and_from(s, p + 1, q)

re_split_and(s) == re_split_and_from(s, 1, 1)

\* Mutant of format_author: a name without a comma is cut at its first space.
format_author_first_space(raw) ==
    LET author == strip(raw) IN
    IF contains(author, ",")
    THEN LET c == find(author, ",")
             last == strip(SubSeq(author, 1, c - 1))
             first == strip(from(author, c + 1))
         IN  abbreviate_name(first) \o <<" ">> \o last
    ELSE IF contains(author, " ")
    THEN LET b == find(author, " ")
             first == SubSeq(author, 1, b - 1)
             last == from(author, b + 1)
         IN  abbreviate_name(first) \o <<" ">> \o last
    ELSE author

\* one turn of the for loop of split_authors
format_author(raw) ==
    LET author == strip(raw) IN
    IF contains(author, ",")
    THEN LET c == find(author, ",")
             last == strip(SubSeq(author, 1, c - 1))
             first == strip(from(author, c + 1))
         IN  abbreviate_name(first) \o <<" ">> \o last
    ELSE IF contains(author, " ")
    THEN LET b == rfind(author, " ", Len(author) + 1)
             first == SubSeq(author, 1, b - 1)
             last == from(author, b + 1)
         IN  abbreviate_name(first) \o <<" ">> \o last
    ELSE author

\* No statement of the try block can raise (split(",", 1) and rsplit(" ", 1) are
\* guarded by the "in" tests, part[0] by split()), so the except branch is dead.
split_authors(author_str) ==
    LET authors == re_split_and(author_str) IN
    [i \in DOMAIN authors |-> format_author(authors[i])]

(***************************************************************************)
(* parse_fields                                                            *)
(***************************************************************************)
\* while index < length and field_text[index] in " \t\n"
RECURSIVE skip_blank(_, _)
skip_blank(text, p) ==
    IF p <= Len(text) /\ text[p] \in {" ", "\t", "\n"} THEN skip_blank(text, p + 1) ELSE p

\* the pages rule
collapse_pages(value) ==
    LET n == count(value, "-") IN
    IF n > 1 THEN replace(value, times("-", n), <<"-">>) ELSE value

\* the per-key rule applied to the extracted value
normalise(key, value) ==
    IF key \in {K_author, K_editor} THEN join(split_authors(value), T_and)
    ELSE IF key = K_pages THEN collapse_pages(value)
    ELSE value

\* the field whose "=" is at position eq: its key, its value, where the scan goes on
field_at(text, eq) ==
    LET key_start == rfind(text, "\n", eq) + 1
        key == lower(strip(SubSeq(text, key_start, eq - 1)))
        ev == extract_value(text, skip_blank(text, eq + 1))
    IN  [key |-> key, value |-> normalise(key, rstrip_comma(ev[1])), stop |-> ev[2]]

RECURSIVE parse_fields_loop(_, _, _)
parse_fields_loop(text, p, fields) ==
    IF p > Len(text) THEN fields
    ELSE IF text[p] = "="
    THEN LET f == field_at(text, p) IN
         parse_fields_loop(text, f.stop + 1, od_set(fields, lower(f.key), f.value))
    ELSE parse_fields_loop(text, p + 1, fields)

parse_fields(field_text) == parse_fields_loop(field_text, 1, <<>>)

(***************************************************************************)
(* process_bib_entry                                                       *)
(***************************************************************************)
\* lines[0].strip()
header_of(entry_text) ==
    LET nl == find(entry_text, "\n") IN
    strip(IF nl = 0 THEN entry_text ELSE SubSeq(entry_text, 1, nl - 1))

\* "\n".join(lines[1:]).strip()
field_text_of(entry_text) ==
    LET nl == find(entry_text, "\n") IN
    strip(IF nl = 0 THEN <<>> ELSE from(entry_text, nl + 1))

entry_type_of(header) == lower(strip(SubSeq(header, 2, find(header, "{") - 1)))
entry_id_of(header) == rstrip_comma(strip(from(header, find(header, "{") + 1)))

\* Mutant of process_bib_entry: no test for a known id, the entry is overwritten.
process_bib_entry_overwrite(entry_text, ents) ==
    LET header == header_of(entry_text) IN
    IF ~contains(header, "{")
    THEN [entries |-> ents, exit |-> FALSE, printed |-> <<>>]
    ELSE [entries |-> od_set(ents, entry_id_of(header),
                             [type |-> entry_type_of(header),
                              fields |-> parse_fields(field_text_of(entry_text))]),
          exit |-> FALSE, printed |-> <<>>]

\* The outcome of one call: the collection after it, whether the call ended in
\* exit(1), and what it printed.
process_bib_entry(entry_text, ents) ==
    LET header == header_of(entry_text) IN
    IF ~contains(header, "{")
    THEN [entries |-> ents, exit |-> FALSE, printed |-> <<>>]
    ELSE LET entry_type == entry_type_of(header)
             entry_id == entry_id_of(header)
             fields == od_update(<<>>, parse_fields(field_text_of(entry_text)))
         IN  IF od_has(ents, entry_id)
             THEN [entries |-> ents, exit |-> TRUE,
                   printed |-> <<"Duplicate entry: ", entry_id>>]
             ELSE [entries |-> od_set(ents, entry_id,
                                      [type |-> entry_type, fields |-> fields]),
                   exit |-> FALSE, printed |-> <<>>]

(***************************************************************************)
(* entry2str                                                               *)
(***************************************************************************)
RECURSIVE entry2str_loop(_, _)
entry2str_loop(str, items) ==
    IF items = <<>> THEN str
    ELSE entry2str_loop(
             join(<<str, <<"\t">> \o items[1][1] \o <<" ", "=", " ", "{">>
                         \o items[1][2] \o <<"}", ",">> >>, <<"\n">>),
             Tail(items))

entry2str(key, entry) ==
    join(<<entry2str_loop(<<"@">> \o entry.type \o <<"{">> \o key \o <<",">>,
                          entry.fields),
           <<"}", "\n", "\n">> >>, <<"\n">>)

(***************************************************************************)
(* remove_dummy_fields                                                     *)
(***************************************************************************)
\* for field in names: if field in bibfields: del bibfields[field]
RECURSIVE del_each(_, _)
del_each(bibfields, names) ==
    IF names = <<>> THEN bibfields
    ELSE del_each(IF od_has(bibfields, names[1]) THEN od_del(bibfields, names[1])
                  ELSE bibfields,
                  Tail(names))

\* Mutant of remove_dummy_fields: issn and url go whatever the type.
remove_dummy_fields_any_type(entry) ==
    [entry EXCEPT !.fields =
        del_each(entry.fields,
                 <<K_timestamp, K_abstract, K_keywords, K_owner, K_issn, K_url>>)]

remove_dummy_fields(entry) ==
    LET generic == del_each(entry.fields, <<K_timestamp, K_abstract, K_keywords, K_owner>>)
    IN  [entry EXCEPT !.fields =
            IF entry.type = T_article THEN del_each(generic, <<K_issn, K_url>>)
            ELSE generic]

(***************************************************************************)
(* get_doi, get_exact_doi, update_DOI.  A Crossref answer is the list      *)
(* result["message"]["items"]; an item is [title, DOI], None for a key     *)
(* the item does not have.                                                 *)
(***************************************************************************)
get_doi(items) ==
    IF items # <<>>
    THEN (IF items[1].DOI = None THEN DOI_not_found ELSE items[1].DOI)
    ELSE DOI_not_found

RECURSIVE get_exact_doi(_, _)
get_exact_doi(article_title, items) ==
    IF items = <<>> THEN None
    ELSE IF /\ items[1].title # None
            /\ lower(strip(items[1].title)) = lower(strip(article_title))
    THEN items[1].DOI
    ELSE get_exact_doi(article_title, Tail(items))

\* the keys of an entry, which is the dict {"type": ..., "fields": ...}
EntryAttrs == {"type", "fields"}

\* update_DOI on an entry that has a title, given the answer of Crossref
update_DOI(entry, items) ==
    IF "doi" \notin EntryAttrs
    THEN LET article_name == od_get(entry.fields, K_title)
             doi == IF entry.type = T_article THEN get_doi(items)
                    ELSE get_exact_doi(article_name, items)
         IN  IF doi # None
             THEN [entry EXCEPT !.fields = od_set(entry.fields, K_doi, doi)]
             ELSE entry
    ELSE entry

(***************************************************************************)
(* read_bibtex_entries, one action per turn of its loops                   *)
(***************************************************************************)
\* outer loop, content[index] != "@"
ScanSkip ==
    /\ pc = "scan" /\ ~in_entry
    /\ index <= Len(content) /\ content[index] # "@"
    /\ index' = index + 1
    /\ UNCHANGED <<content, in_entry, entry_start, brace_count, entries, handed>>
    /\ UNCHANGED <<runVars, roundVars, fnVars>>

\* outer loop, content[index] == "@": the record opens, and the first turn of the
\* inner loop steps over the "@"
ScanEntryStart ==
    /\ pc = "scan" /\ ~in_entry
    /\ index <= Len(content) /\ content[index] = "@"
    /\ entry_start' = index
    /\ brace_count' = 0
    /\ in_entry' = TRUE
    /\ index' = index + 1
    /\ UNCHANGED <<content, entries, handed>>
    /\ UNCHANGED <<runVars, roundVars, fnVars>>

\* brace_count after the character c
count_brace(bc, c) == IF c = "{" THEN bc + 1 ELSE IF c = "}" THEN bc - 1 ELSE bc

\* Mutant of at_entry_end: "brace_count <= 0" for "brace_count == 0".
at_entry_end_not_positive ==
    /\ pc = "scan" /\ in_entry /\ index <= Len(content)
    /\ content[index] = "}"
    /\ count_brace(brace_count, content[index]) <= 0

\* the inner loop is at the "}" that ends the record
at_entry_end == /\ pc = "scan" /\ in_entry /\ index <= Len(content)
                /\ content[index] = "}"
                /\ count_brace(brace_count, content[index]) = 0

\* inner loop, any character that does not end the record
ScanInner ==
    /\ pc = "scan" /\ in_entry
    /\ index <= Len(content)
    /\ ~at_entry_end
    /\ brace_count' = count_brace(brace_count, content[index])
    /\ index' = index + 1
    /\ UNCHANGED <<content, in_entry, entry_start, entries, handed>>
    /\ UNCHANGED <<runVars, roundVars, fnVars>>

\* inner loop, end of the record: process_bib_entry returns, break, index += 1
StoreEntry ==
    /\ at_entry_end
    /\ LET r == process_bib_entry(SubSeq(content, entry_start, index), entries) IN
       /\ ~r.exit
       /\ entries' = r.entries
    /\ handed' = Append(handed, <<entry_start, index>>)
    /\ brace_count' = 0
    /\ in_entry' = FALSE
    /\ index' = index + 1
    /\ UNCHANGED <<content, entry_start>>
    /\ UNCHANGED <<runVars, roundVars, fnVars>>

\* inner loop, end of the record: process_bib_entry prints and calls exit(1)
DuplicateExit ==
    /\ at_entry_end
    /\ LET r == process_bib_entry(SubSeq(content, entry_start, index), entries) IN
       /\ r.exit
       /\ stdout' = r.printed
    /\ handed' = Append(handed, <<entry_start, index>>)
    /\ brace_count' = 0
    /\ pc' = "exit1"
    /\ UNCHANGED <<content, index, in_entry, entry_start, entries>>
    /\ UNCHANGED <<pos, out_file, lookup, roundVars, fnVars>>

\* both loops are over (the inner one may have run off the end): return entries
ScanEnd ==
    /\ pc = "scan"
    /\ index > Len(content)
    /\ index' = IF in_entry THEN index + 1 ELSE index
    /\ pc' = "parsed"
    /\ UNCHANGED <<content, in_entry, entry_start, brace_count, entries, handed>>
    /\ UNCHANGED <<pos, out_file, stdout, lookup, roundVars, fnVars>>

(***************************************************************************)
(* BIB_filter                                                              *)
(***************************************************************************)
\* the head of "for key, entry in parsed_bib.items()"
for_head(p) == IF p > Len(entries) THEN "close" ELSE "remove"

\* Mutant of OpenOutput: the output file is opened before the input is read.
OpenOutput_before_read ==
    /\ pc = "scan" /\ index = 1 /\ out_file.state = "untouched"
    /\ out_file' = [state |-> "open", data |-> <<>>]
    /\ UNCHANGED <<pc, pos, stdout, lookup, scanVars, roundVars, fnVars>>

\* with open(bibtex_filename + "_updated.bib", "w") as bib_file
OpenOutput ==
    /\ pc = "parsed"
    /\ out_file' = [state |-> "open", data |-> <<>>]
    /\ pos' = 1
    /\ pc' = for_head(1)
    /\ UNCHANGED <<stdout, lookup, scanVars, roundVars, fnVars>>

RemoveDummy ==
    /\ pc = "remove"
    /\ entries' = [entries EXCEPT ![pos][2] = remove_dummy_fields(@)]
    /\ pc' = "update"
    /\ UNCHANGED <<content, index, in_entry, entry_start, brace_count, handed>>
    /\ UNCHANGED <<pos, out_file, stdout, lookup, roundVars, fnVars>>

\* bibfields["title"] raises KeyError, which nothing catches: the with block
\* closes the file and the run ends
UpdateNoTitle ==
    /\ pc = "update"
    /\ ~od_has(entries[pos][2].fields, K_title)
    /\ stdout' = <<"KeyError: ", K_title>>
    /\ lookup' = "none"
    /\ out_file' = [out_file EXCEPT !.state = "closed"]
    /\ pc' = "crash"
    /\ UNCHANGED <<pos, scanVars, roundVars, fnVars>>

\* cr.works raises (network, timeout), which nothing catches
UpdateRaise ==
    /\ pc = "update"
    /\ od_has(entries[pos][2].fields, K_title)
    /\ lookup' = "raised"
    /\ out_file' = [out_file EXCEPT !.state = "closed"]
    /\ pc' = "crash"
    /\ UNCHANGED <<pos, stdout, scanVars, roundVars, fnVars>>

T_other == <<"Z">>
T_some_doi == <<"1","0",".","1","/","x">>
\* get_doi asks with limit=1
ArticleLimit == 1

\* get_exact_doi asks with limit=10: the items looked at here
MaxItems == 2

\* the items Crossref may answer a query for this title with
ItemPool(title) ==
    {[title |-> t, DOI |-> d] : t \in {None, title, T_other}, d \in {None, T_some_doi}}

\* the answers to the query update_DOI makes for this entry
Answers(entry) ==
    LET limit == IF entry.type = T_article THEN ArticleLimit ELSE MaxItems IN
    UNION {[1..n -> ItemPool(od_get(entry.fields, K_title))] : n \in 0..limit}

\* what a query did: nothing came back, nothing matched, the hit has no DOI, found
lookup_outcome(entry, items) ==
    LET title == od_get(entry.fields, K_title)
        hits == IF entry.type = T_article THEN items
                ELSE SelectSeq(items, LAMBDA it :
                         it.title # None /\ lower(strip(it.title)) = lower(strip(title)))
    IN  IF items = <<>> THEN "empty"
        ELSE IF hits = <<>> THEN "no_match"
        ELSE IF hits[1].DOI = None THEN "no_doi"
        ELSE "found"

\* cr.works answers
UpdateDOI ==
    /\ pc = "update"
    /\ od_has(entries[pos][2].fields, K_title)
    /\ \E items \in Answers(entries[pos][2]) :
          /\ entries' = [entries EXCEPT ![pos][2] = update_DOI(@, items)]
          /\ lookup' = lookup_outcome(entries[pos][2], items)
    /\ pc' = "write"
    /\ UNCHANGED <<content, index, in_entry, entry_start, brace_count, handed>>
    /\ UNCHANGED <<pos, out_file, stdout, roundVars, fnVars>>

\* str = bp.entry2str(key, entry); bib_file.write(str); next turn of the for loop
WriteEntry ==
    /\ pc = "write"
    /\ out_file' = [out_file EXCEPT
                      !.data = Append(@, entry2str(entries[pos][1], entries[pos][2]))]
    /\ pos' = pos + 1
    /\ pc' = for_head(pos + 1)
    /\ UNCHANGED <<stdout, lookup, scanVars, roundVars, fnVars>>

\* the for loop is over: the with block closes the file
CloseOutput ==
    /\ pc = "close"
    /\ out_file' = [out_file EXCEPT !.state = "closed"]
    /\ pc' = "done"
    /\ UNCHANGED <<pos, stdout, lookup, scanVars, roundVars, fnVars>>

(***************************************************************************)
(* The run of BIB_filter on a document                                     *)
(***************************************************************************)
AllTexts(alphabet, n) == UNION {[1..k -> alphabet] : k \in 0..n}

RECURSIVE concat(_)
concat(parts) == IF parts = <<>> THEN <<>> ELSE Head(parts) \o concat(Tail(parts))

\* @Article{k1,\n Title = {T},\n issn = {1},\n timestamp = {2},\n title = {U},\n}\n
R_article == <<"@","A","r","t","i","c","l","e","{","k","1",",","\n"," ","T",
    "i","t","l","e"," ","="," ","{","T","}",",","\n"," ","i","s","s","n"," ",
    "="," ","{","1","}",",","\n"," ","t","i","m","e","s","t","a","m","p"," ",
    "="," ","{","2","}",",","\n"," ","t","i","t","l","e"," ","="," ","{","U",
    "}",",","\n","}","\n">>
\* @book{k1,\n title = {V},\n url = {x},\n owner = {me},\n}\n
R_book_dup == <<"@","b","o","o","k","{","k","1",",","\n"," ","t","i","t","l",
    "e"," ","="," ","{","V","}",",","\n"," ","u","r","l"," ","="," ","{","x",
    "}",",","\n"," ","o","w","n","e","r"," ","="," ","{","m","e","}",",","\n",
    "}","\n">>
\* @book{k2,\n url = {x},\n title = {W},\n doi = {9},\n}\n
R_book == <<"@","b","o","o","k","{","k","2",",","\n"," ","u","r","l"," ","=",
    " ","{","x","}",",","\n"," ","t","i","t","l","e"," ","="," ","{","W","}",
    ",","\n"," ","d","o","i"," ","="," ","{","9","}",",","\n","}","\n">>
\* @misc\n{k3,\n title = {X},\n}\n
R_nohdr == <<"@","m","i","s","c","\n","{","k","3",",","\n"," ","t","i","t",
    "l","e"," ","="," ","{","X","}",",","\n","}","\n">>
\* @misc{k4,\n note = {n},\n}\n
R_notitle == <<"@","m","i","s","c","{","k","4",",","\n"," ","n","o","t","e",
    " ","="," ","{","n","}",",","\n","}","\n">>
\* @book{k5,\n title = {Y},\n
R_open == <<"@","b","o","o","k","{","k","5",",","\n"," ","t","i","t","l","e",
    " ","="," ","{","Y","}",",","\n">>
\* % }{ x\n
R_junk == <<"%"," ","}","{"," ","x","\n">>

RecordPool == {R_article, R_book_dup, R_book, R_nohdr, R_notitle, R_open, R_junk}

MaxRecords == 2

Documents == {concat(rs) : rs \in UNION {[1..n -> RecordPool] : n \in 0..MaxRecords}}

IdleFn == arg = <<>> /\ res = <<>> /\ fpc = "idle"
IdleRound == pass = 1 /\ prev = <<>>
IdleRun == /\ pc = "idle" /\ pos = 0 /\ stdout = <<>> /\ lookup = "none"
           /\ out_file = [state |-> "untouched", data |-> <<>>]
IdleScan == /\ content = <<>> /\ index = 1 /\ in_entry = FALSE /\ entry_start = 0
            /\ brace_count = 0 /\ entries = <<>> /\ handed = <<>>

StartOn(docs) ==
    /\ content \in docs
    /\ index = 1 /\ in_entry = FALSE /\ entry_start = 0 /\ brace_count = 0
    /\ entries = <<>> /\ handed = <<>>
    /\ pc = "scan" /\ pos = 0 /\ stdout = <<>> /\ lookup = "none"
    /\ out_file = [state |-> "untouched", data |-> <<>>]

Init == StartOn(Documents) /\ IdleRound /\ IdleFn

Next ==
    \/ ScanSkip \/ ScanEntryStart \/ ScanInner \/ StoreEntry \/ DuplicateExit
    \/ ScanEnd
    \/ OpenOutput \/ RemoveDummy \/ UpdateNoTitle \/ UpdateRaise \/ UpdateDOI
    \/ WriteEntry \/ CloseOutput

Spec == Init /\ [][Next]_vars

(***************************************************************************)
(* read_bibtex_entries alone, on every short document over the characters  *)
(* its loops tell apart                                                    *)
(***************************************************************************)
ScanAlphabet == {"@", "{", "}", "\n"}

MaxDocLen == 7

InitScan == StartOn(AllTexts(ScanAlphabet, MaxDocLen)) /\ IdleRound /\ IdleFn

NextScan ==
    \/ ScanSkip \/ ScanEntryStart \/ ScanInner \/ StoreEntry \/ DuplicateExit
    \/ ScanEnd

SpecScan == InitScan /\ [][NextScan]_vars

(***************************************************************************)
(* Round trip: the entries read from a document are written with           *)
(* entry2str and the text is read again                                    *)
(***************************************************************************)
\* @book{k,\n title = {A {B} c},\n pages = {1--2},\n year = 2020,\n}\n
RT_book == <<"@","b","o","o","k","{","k",",","\n"," ","t","i","t","l","e"," ",
    "="," ","{","A"," ","{","B","}"," ","c","}",",","\n"," ","p","a","g","e",
    "s"," ","="," ","{","1","-","-","2","}",",","\n"," ","y","e","a","r"," ",
    "="," ","2","0","2","0",",","\n","}","\n">>
\* @article{m,\n author = {Ab Cd and E, F},\n note = "x, y",\n}\n
RT_article == <<"@","a","r","t","i","c","l","e","{","m",",","\n"," ","a","u",
    "t","h","o","r"," ","="," ","{","A","b"," ","C","d"," ","a","n","d"," ",
    "E",","," ","F","}",",","\n"," ","n","o","t","e"," ","="," ","\"","x",",",
    " ","y","\"",",","\n","}","\n">>
\* @book{n,\n author = {de Ab, C},\n}\n
RT_particle == <<"@","b","o","o","k","{","n",",","\n"," ","a","u","t","h","o",
    "r"," ","="," ","{","d","e"," ","A","b",","," ","C","}",",","\n","}",
    "\n">>
\* @misc{k, title = {T}}\n
RT_oneline == <<"@","m","i","s","c","{","k",","," ","t","i","t","l","e"," ",
    "="," ","{","T","}","}","\n">>

RoundPool == {RT_book, RT_article, RT_particle, RT_oneline}

RoundDocs == {concat(rs) : rs \in UNION {[1..n -> RoundPool] : n \in 1..MaxRecords}}

RECURSIVE serialize_all(_)
serialize_all(ents) ==
    IF ents = <<>> THEN <<>>
    ELSE entry2str(ents[1][1], ents[1][2]) \o serialize_all(Tail(ents))

Reserialize ==
    /\ pc = "parsed" /\ pass = 1
    /\ content' = serialize_all(entries)
    /\ prev' = entries
    /\ pass' = 2
    /\ index' = 1 /\ in_entry' = FALSE /\ entry_start' = 0 /\ brace_count' = 0
    /\ entries' = <<>> /\ handed' = <<>>
    /\ pc' = "scan"
    /\ UNCHANGED <<pos, out_file, stdout, lookup, fnVars>>

InitRound == StartOn(RoundDocs) /\ IdleRound /\ IdleFn

NextRound ==
    \/ ScanSkip \/ ScanEntryStart \/ ScanInner \/ StoreEntry \/ DuplicateExit
    \/ ScanEnd \/ Reserialize

SpecRound == InitRound /\ [][NextRound]_vars

(***************************************************************************)
(* The functions alone, each on every input of a bounded set               *)
(***************************************************************************)
ReadyOn(inputs) == arg \in inputs /\ res = <<>> /\ fpc = "ready"

\* extract_value
ExtractAlphabet == {"{", "}", "\"", ",", "a"}

MaxValueLen == 5

ExtractInputs ==
    {[text |-> t, start |-> p] :
        t \in AllTexts(ExtractAlphabet, MaxValueLen), p \in 1..(MaxValueLen + 1)}

InitExtract ==
    /\ ReadyOn({a \in ExtractInputs : a.start <= Len(a.text) + 1})
    /\ IdleScan /\ IdleRun /\ IdleRound

DoExtractValue ==
    /\ fpc = "ready"
    /\ res' = extract_value(arg.text, arg.start)
    /\ fpc' = "done"
    /\ UNCHANGED <<arg, scanVars, runVars, roundVars>>

SpecExtract == InitExtract /\ [][DoExtractValue]_vars

\* parse_fields on a block that holds one pages field
PagesAlphabet == {"-", "1", " "}

MaxPagesLen == 5

T_pages_open == <<"p","a","g","e","s"," ","="," ","{">>
T_close == <<"}",",">>

InitPages ==
    /\ ReadyOn(AllTexts(PagesAlphabet, MaxPagesLen))
    /\ IdleScan /\ IdleRun /\ IdleRound

DoParsePages ==
    /\ fpc = "ready"
    /\ res' = parse_fields(T_pages_open \o arg \o T_close)
    /\ fpc' = "done"
    /\ UNCHANGED <<arg, scanVars, runVars, roundVars>>

SpecPages == InitPages /\ [][DoParsePages]_vars

\* split_authors and abbreviate_name, on the texts made of a few pieces
NamePieces == {<<"T">>, <<"a","b">>, <<"J",".">>, T_and, <<" ">>, <<",">>, <<"\t">>}

MaxPieces == 5

AuthorInputs == {concat(ps) : ps \in UNION {[1..n -> NamePieces] : n \in 0..MaxPieces}}

InitAuthors == ReadyOn(AuthorInputs) /\ IdleScan /\ IdleRun /\ IdleRound

DoSplitAuthors ==
    /\ fpc = "ready"
    /\ res' = split_authors(arg)
    /\ fpc' = "split"
    /\ UNCHANGED <<arg, scanVars, runVars, roundVars>>

DoAbbreviateName ==
    /\ fpc = "ready"
    /\ res' = abbreviate_name(arg)
    /\ fpc' = "abbreviated"
    /\ UNCHANGED <<arg, scanVars, runVars, roundVars>>

NextAuthors == DoSplitAuthors \/ DoAbbreviateName

SpecAuthors == InitAuthors /\ [][NextAuthors]_vars

\* remove_dummy_fields, on the entries with a few fields
FieldKeys == {K_timestamp, K_abstract, K_keywords, K_owner, K_issn, K_url,
              K_title, K_doi}

EntryTypes == {T_article, <<"b","o","o","k">>, <<"m","i","s","c">>}

MaxFields == 3

\* the value of the i-th field: no two fields of an entry hold the same one
FieldValues == <<"1", "2", "3", "4", "5", "6", "7", "8">>

EntryInputs ==
    {[type |-> t, fields |-> [i \in DOMAIN ks |-> <<ks[i], <<FieldValues[i]>> >>]] :
        t \in EntryTypes,
        ks \in {q \in UNION {[1..n -> FieldKeys] : n \in 0..MaxFields} :
                   \A i, j \in DOMAIN q : i # j => q[i] # q[j]}}

InitRemove == ReadyOn(EntryInputs) /\ IdleScan /\ IdleRun /\ IdleRound

DoRemoveDummy ==
    /\ fpc = "ready"
    /\ res' = remove_dummy_fields(arg)
    /\ fpc' = "done"
    /\ UNCHANGED <<arg, scanVars, runVars, roundVars>>

\* the operation once more, on its own result (arg keeps the first result)
DoRemoveDummyAgain ==
    /\ fpc = "done"
    /\ arg' = res
    /\ res' = remove_dummy_fields(res)
    /\ fpc' = "twice"
    /\ UNCHANGED <<scanVars, runVars, roundVars>>

NextRemove == DoRemoveDummy \/ DoRemoveDummyAgain

SpecRemove == InitRemove /\ [][NextRemove]_vars

(***************************************************************************)
(* What the claims speak about                                             *)
(***************************************************************************)
Min(S) == CHOOSE x \in S : \A y \in S : x <= y
Max(S) == CHOOSE x \in S : \A y \in S : y <= x

\* a set of numbers as the ascending sequence
Ascending(S) ==
    [n \in 1..Cardinality(S) |-> CHOOSE x \in S : Cardinality({y \in S : y < x}) = n - 1]

\* the members of a sequence without the repeats, each where it first stands
FirstOccurrences(seq) ==
    LET firsts == Ascending({i \in DOMAIN seq : \A j \in 1..(i - 1) : seq[j] # seq[i]})
    IN  [n \in DOMAIN firsts |-> seq[firsts[n]]]

Range(seq) == {seq[i] : i \in DOMAIN seq}

\* the text of the k-th record handed to process_bib_entry, and what its header says
Rec(k) == SubSeq(content, handed[k][1], handed[k][2])
ValidCall(k) == contains(header_of(Rec(k)), "{")
CallId(k) == entry_id_of(header_of(Rec(k)))
CallType(k) == entry_type_of(header_of(Rec(k)))

\* the calls with a header, in order
ValidCalls == Ascending({k \in DOMAIN handed : ValidCall(k)})

\* the first record that carries the id
FirstCall(id) == Min({k \in DOMAIN handed : ValidCall(k) /\ CallId(k) = id})

\* the records whose id an earlier record carried
RepeatedCalls ==
    {k \in DOMAIN handed :
        ValidCall(k) /\ \E j \in 1..(k - 1) : ValidCall(j) /\ CallId(j) = CallId(k)}

InParser == pc \in {"scan", "parsed", "exit1"}

\* C1: two records with the same id are fatal at the second one: the run exits
\* with "Duplicate entry: <id>", and in every state the ids of the collection are
\* pairwise different and each maps to the type and the fields of the first
\* record that carries it.
C1_DuplicateIsFatal ==
    /\ \A i, j \in DOMAIN entries : i # j => entries[i][1] # entries[j][1]
    /\ \A i \in DOMAIN entries :
          LET id == entries[i][1] IN
          /\ \E k \in DOMAIN handed : ValidCall(k) /\ CallId(k) = id
          /\ entries[i][2].type = CallType(FirstCall(id))
          /\ InParser =>
                entries[i][2].fields = parse_fields(field_text_of(Rec(FirstCall(id))))
    /\ \A k \in RepeatedCalls :
          /\ k = Len(handed)
          /\ pc = "exit1"
          /\ stdout = <<"Duplicate entry: ", CallId(k)>>
    /\ pc = "exit1" => Len(handed) \in RepeatedCalls

\* C1 witness: the run has exited on a second record whose text differs from the
\* first one's, which is still the one stored.
C1_Witness ==
    /\ pc = "exit1"
    /\ \E k \in RepeatedCalls :
          /\ Rec(k) # Rec(FirstCall(CallId(k)))
          /\ od_has(entries, CallId(k))

\* the <<key, value>> pairs of a field block, in the order of the text
RECURSIVE SourceFields(_, _)
SourceFields(text, p) ==
    IF p > Len(text) THEN <<>>
    ELSE IF text[p] = "="
    THEN LET f == field_at(text, p) IN <<<<f.key, f.value>>>> \o SourceFields(text, f.stop + 1)
    ELSE SourceFields(text, p + 1)

\* the lines of a text
Lines(text) ==
    LET cuts == Ascending({0, Len(text) + 1} \cup {i \in DOMAIN text : text[i] = "\n"})
    IN  [n \in 1..(Len(cuts) - 1) |-> SubSeq(text, cuts[n] + 1, cuts[n + 1] - 1)]

\* C8: the entries stand in the order in which their ids first appear in the
\* source and none is ever dropped; the fields of an entry stand in the order in
\* which their keys first appear (a repeated key keeps its place and takes the
\* last value; the transformer only deletes keys or adds doi at the end); and the
\* i-th text written is the i-th entry, one line per field in that order.
C8_OrderPreserved ==
    /\ od_keys(entries) =
          FirstOccurrences([n \in DOMAIN ValidCalls |-> CallId(ValidCalls[n])])
    /\ \A i \in DOMAIN entries :
          LET src == SourceFields(field_text_of(Rec(FirstCall(entries[i][1]))), 1)
              srcKeys == FirstOccurrences([n \in DOMAIN src |-> src[n][1]])
              fields == entries[i][2].fields
              now == od_keys(fields)
          IN  /\ InParser =>
                    /\ now = srcKeys
                    /\ \A n \in DOMAIN fields :
                          fields[n][2] =
                             src[Max({m \in DOMAIN src : src[m][1] = fields[n][1]})][2]
              /\ SelectSeq(now, LAMBDA k : k \in Range(srcKeys))
                    = SelectSeq(srcKeys, LAMBDA k : k \in Range(now))
              /\ \A n \in DOMAIN now :
                    now[n] \notin Range(srcKeys) => now[n] = K_doi /\ n = Len(now)
    /\ Len(out_file.data) <= Len(entries)
    /\ \A i \in DOMAIN out_file.data :
          LET lines == Lines(out_file.data[i])
              fields == entries[i][2].fields
          IN  /\ Len(lines) = Len(fields) + 4
              /\ lines[1] = <<"@">> \o entries[i][2].type \o <<"{">> \o entries[i][1]
                               \o <<",">>
              /\ \A n \in DOMAIN fields :
                    lines[n + 1] = <<"\t">> \o fields[n][1] \o <<" ", "=", " ", "{">>
                                      \o fields[n][2] \o <<"}", ",">>

\* C8 witness: two entries have been written, and the source of one of them
\* repeats a key.
C8_Witness ==
    /\ Len(out_file.data) >= 2
    /\ \E i \in DOMAIN entries :
          LET src == SourceFields(field_text_of(Rec(FirstCall(entries[i][1]))), 1)
          IN  \E m, n \in DOMAIN src : m < n /\ src[m][1] = src[n][1]

\* C9: a fatal parse error leaves no output: when the run has exited in the
\* parser the output file is as it was, and the file is only ever opened after
\* the whole document has been read.
C9_NoOutputOnFatalParse ==
    /\ pc = "exit1" => out_file = [state |-> "untouched", data |-> <<>>]
    /\ out_file.state # "untouched" => pc \notin {"scan", "exit1"} /\ index > Len(content)

\* C9 witness: the run has exited on a duplicate after storing an entry.
C9_Witness == pc = "exit1" /\ entries # <<>> /\ out_file.state = "untouched"

\* C3: a failed lookup (nothing came back, nothing matched, the query raised)
\* leaves the entry as it is and the run goes on to write it.
C3_FailedLookupChangesNothing ==
    [][(pc = "update" /\ lookup' \in {"raised", "empty", "no_match"})
          => (entries' = entries /\ pc' = "write")]_vars

\* C2: the entries read back from the serialised text are the entries that
\* were serialised.
C2_RoundTrip == (pc = "parsed" /\ pass = 2) => entries = prev

(***************************************************************************)
(* C10: the records of a document                                          *)
(***************************************************************************)
\* "{" minus "}" over the positions a..b
Depth(a, b) ==
    Cardinality({j \in a..b : content[j] = "{"})
        - Cardinality({j \in a..b : content[j] = "}"})

\* position e holds a "}" that brings the depth counted from s back to 0
EndsRecord(s, e) == content[e] = "}" /\ Depth(s, e) = 0

InSpan(j) == \E k \in DOMAIN handed : handed[k][1] <= j /\ j <= handed[k][2]

\* the positions before this one are settled
Frontier == IF in_entry THEN entry_start ELSE index

Segmented ==
    /\ \A k \in DOMAIN handed :
          LET s == handed[k][1]
              e == handed[k][2]
          IN  /\ content[s] = "@"
              /\ EndsRecord(s, e)
              /\ \A j \in s..(e - 1) : ~EndsRecord(s, j)
    /\ \A k \in 1..(Len(handed) - 1) : handed[k][2] < handed[k + 1][1]
    /\ \A j \in DOMAIN content : j < Frontier /\ content[j] = "@" => InSpan(j)
    /\ pc = "scan" /\ in_entry =>
          /\ content[entry_start] = "@"
          /\ ~InSpan(entry_start)
          /\ brace_count = Depth(entry_start, index - 1)
          /\ \A j \in entry_start..(index - 1) : ~EndsRecord(entry_start, j)
    /\ pc = "parsed" =>
          /\ index > Len(content)
          /\ in_entry =>
                /\ ~InSpan(entry_start)
                /\ \A j \in entry_start..Len(content) : ~EndsRecord(entry_start, j)
    /\ Len(entries) <= Len(handed)
    /\ \A i \in DOMAIN entries :
          \E k \in DOMAIN handed : ValidCall(k) /\ CallId(k) = entries[i][1]

\* the position of the scan is bounded by the text
ScanBounded == pc = "scan" => index <= Len(content) + 1

\* every step of the scan moves the position forward or ends the scan, and keeps
\* the calls made so far
ScanAdvances ==
    pc = "scan" =>
        /\ index' > index \/ pc' # "scan"
        /\ Len(handed') >= Len(handed)
        /\ SubSeq(handed', 1, Len(handed)) = handed

\* after a call that returned, the scan went on just past the closing brace: it
\* has looked at every position between that brace and where it is now
ResumedPastBrace ==
    (pc = "scan" /\ ~in_entry /\ handed # <<>>) =>
        /\ index > handed[Len(handed)][2]
        /\ \A j \in (handed[Len(handed)][2] + 1)..(index - 1) : content[j] # "@"

\* C10: each call of process_bib_entry gets a span from an "@" outside every
\* earlier span to the first "}" that brings the depth back to 0; the spans come
\* in document order and never overlap; no "@" the scan has passed outside a span
\* is left out; the scan goes on just past the closing brace; an "@" whose braces
\* never close gives no call; and the scan ends, since each of its steps moves
\* the position forward and the position never passes the end of the text.
C10_Segmentation ==
    /\ [](Segmented /\ ResumedPastBrace /\ ScanBounded)
    /\ [][ScanAdvances]_vars

\* C10 witness: the scan is over, two records were handed over and stored, and
\* an "@" stood inside one of them.
C10_Witness ==
    /\ pc = "parsed" /\ Len(handed) = 2 /\ Len(entries) = 2
    /\ \E k \in DOMAIN handed :
          \E j \in (handed[k][1] + 1)..handed[k][2] : content[j] = "@"

(***************************************************************************)
(* C4, C5: the pages rule and extract_value                                *)
(***************************************************************************)
\* the text with every run of two or more hyphens cut down to one hyphen
CollapseRuns(value) ==
    LET kept == Ascending({i \in DOMAIN value :
                              ~(value[i] = "-" /\ i > 1 /\ value[i - 1] = "-")})
    IN  [n \in DOMAIN kept |-> value[kept[n]]]

\* C4: the pages value stored by parse_fields is the written value with every
\* run of two or more hyphens collapsed to one hyphen.
C4_PagesRunsCollapsed == fpc = "done" => res = <<<<K_pages, CollapseRuns(arg)>>>>

\* "{" minus "}" over the positions a..b of a text
DepthIn(text, a, b) ==
    Cardinality({j \in a..b : text[j] = "{"})
        - Cardinality({j \in a..b : text[j] = "}"})

\* the "}" that matches the "{" at position s, 0 when there is none
MatchingBrace(text, s) ==
    LET ends == {e \in s..Len(text) : text[e] = "}" /\ DepthIn(text, s, e) = 0}
    IN  IF ends = {} THEN 0 ELSE Min(ends)

\* the first comma at or after s at brace depth 0 and outside quotes, else the end
TopLevelComma(text, s) ==
    LET commas == {c \in s..Len(text) :
                      /\ text[c] = ","
                      /\ DepthIn(text, s, c) = 0
                      /\ Cardinality({j \in s..c : text[j] = "\""}) % 2 = 0}
    IN  IF commas = {} THEN Len(text) + 1 ELSE Min(commas)

\* C5: a value that opens with "{" and whose brace closes comes back as the text
\* between the two braces, with the position of the closing brace; a bare or
\* quoted value comes back whole, as written, up to the first comma at depth 0
\* outside quotes (or the end), with that position.
C5_ValueExtracted ==
    (fpc = "done" /\ arg.start <= Len(arg.text)) =>
        IF arg.text[arg.start] = "{"
        THEN LET m == MatchingBrace(arg.text, arg.start) IN
             m # 0 => res = <<SubSeq(arg.text, arg.start + 1, m - 1), m>>
        ELSE LET c == TopLevelComma(arg.text, arg.start) IN
             res = <<SubSeq(arg.text, arg.start, c - 1), c>>

(***************************************************************************)
(* C6: author names                                                        *)
(***************************************************************************)
\* the tokens of a name: the runs without whitespace, cut after every "."
NameTokens(s) ==
    LET starts == Ascending({a \in DOMAIN s :
                      s[a] \notin WS /\ (a = 1 \/ s[a - 1] \in WS \/ s[a - 1] = ".")})
        stop(a) == Min({b \in a..Len(s) :
                      b = Len(s) \/ s[b + 1] \in WS \/ s[b] = "."})
    IN  [n \in DOMAIN starts |-> SubSeq(s, starts[n], stop(starts[n]))]

AllUpperLetters(t) == t # <<>> /\ \A i \in DOMAIN t : IsUpperCh(t[i])
AllLetters(t) == t # <<>> /\ \A i \in DOMAIN t : IsUpperCh(t[i]) \/ IsLowerCh(t[i])

\* what the claim makes of one token; capital says whether the initial of a
\* token that is not all uppercase is put in uppercase
AbbreviatedToken(t, capital) ==
    IF AllUpperLetters(t) THEN join([i \in DOMAIN t |-> <<t[i], ".">>], <<" ">>)
    ELSE IF AllLetters(t) THEN <<IF capital THEN upper_ch(t[1]) ELSE t[1], ".">>
    ELSE t

Abbreviated(name, capital) ==
    LET toks == NameTokens(name) IN
    join([n \in DOMAIN toks |-> AbbreviatedToken(toks[n], capital)], <<" ">>)

\* the word "and" at position a with whitespace on both sides
AndWord(s, a) ==
    /\ starts_at(s, a, T_word_and)
    /\ a > 1 /\ s[a - 1] \in WS
    /\ a + 3 <= Len(s) /\ s[a + 3] \in WS

\* it separates two names unless the whitespace before it belongs to the
\* separator just before
RECURSIVE Separates(_, _)
Separates(s, a) ==
    /\ AndWord(s, a)
    /\ ~\E b \in 1..(a - 4) :
           (\A j \in (b + 3)..(a - 1) : s[j] \in WS) /\ Separates(s, b)

\* the names of an author value: what stands between the separators, each
\* separator taken with all the whitespace around its "and"
NamesOf(s) ==
    LET seps == Ascending({a \in DOMAIN s : Separates(s, a)})
        before(a) == Min({i \in 1..(a - 1) : \A j \in i..(a - 1) : s[j] \in WS}) - 1
        after(a) == Max({i \in (a + 3)..Len(s) : \A j \in (a + 3)..i : s[j] \in WS}) + 1
    IN  [n \in 1..(Len(seps) + 1) |->
            SubSeq(s, IF n = 1 THEN 1 ELSE after(seps[n - 1]),
                      IF n = Len(seps) + 1 THEN Len(s) ELSE before(seps[n]))]

\* what the claim makes of one name; space_only says whether a name without a
\* comma is cut at its last space character (else at its last whitespace)
FormattedName(raw, capital, space_only) ==
    LET name == strip(raw)
        cuts == {i \in DOMAIN name : IF space_only THEN name[i] = " " ELSE name[i] \in WS}
    IN  IF contains(name, ",")
        THEN LET c == Min({i \in DOMAIN name : name[i] = ","}) IN
             Abbreviated(strip(from(name, c + 1)), capital) \o <<" ">>
                 \o strip(SubSeq(name, 1, c - 1))
        ELSE IF contains(name, " ")
        THEN Abbreviated(SubSeq(name, 1, Max(cuts) - 1), capital) \o <<" ">>
                 \o from(name, Max(cuts) + 1)
        ELSE name

AuthorsAsClaimed(capital, space_only) ==
    /\ fpc = "split" =>
          LET names == NamesOf(arg) IN
          res = [n \in DOMAIN names |-> FormattedName(names[n], capital, space_only)]
    /\ fpc = "abbreviated" => res = Abbreviated(arg, capital)

RemovedKeys(type) ==
    {K_timestamp, K_abstract, K_keywords, K_owner}
        \cup (IF type = T_article THEN {K_issn, K_url} ELSE {})

\* C7: the fields left are the fields whose key is not timestamp, abstract,
\* keywords or owner (nor issn or url in an article), with their values and in
\* their order; the type is kept; a second application changes nothing.
C7_DummyFieldsRemoved ==
    /\ fpc = "done" =>
          /\ res.type = arg.type
          /\ res.fields = SelectSeq(arg.fields, LAMBDA kv : kv[1] \notin RemovedKeys(arg.type))
    /\ fpc = "twice" => res = arg

\* C7 witness: a book that had url, owner and title keeps url and title, in
\* that order.
C7_Witness ==
    /\ fpc = "done"
    /\ arg.type # T_article
    /\ od_keys(arg.fields) = <<K_url, K_owner, K_title>>
    /\ od_keys(res.fields) = <<K_url, K_title>>

====
